---- MODULE Spec2Model ----
(***************************************************************************)
(* ColorDict (colordict/cdict.py) over sRGBColor (colordict/color.py),     *)
(* constructed with the default keyword arguments.  Numbers are exact      *)
(* rationals <<numerator, denominator>> in lowest terms; a colour object   *)
(* is the record of its canonical tuple (_rgba) and its displayed tuple.   *)
(***************************************************************************)
EXTENDS Integers, Sequences, FiniteSets, TLC

VARIABLES attrs, colors, palettes, changed, files, backupFile, last, calls,
          cur, first, cop

\* the dict and its files; a colour used on its own: the variant at hand, the variant
\* its chain of conversions started from, and the last constructor or conversion call
dvars == <<attrs, colors, palettes, changed, files, backupFile, last, calls>>

cvars == <<cur, first, cop>>

vars == <<attrs, colors, palettes, changed, files, backupFile, last, calls, cur, first, cop>>

\* ---- bounds of the model ----
MaxCalls == 4
MaxChain == 2

\* ---- program constants ----
Norm == 255
IncludeA == FALSE
HNorm == 360
UnitNorm == 1

ColorNames == {"red", "sky"}
ReservedNames == {"colors"}
PaletteNames == {"p1", "unassigned"}

\* ---- exact numbers ----
RECURSIVE GCD(_, _)
GCD(a, b) == IF b = 0 THEN a ELSE GCD(b, a % b)

Frac(n, d) == LET g == GCD(n, d) IN <<n \div g, d \div g>>

Whole(n) == <<n, 1>>

RDiv(q, k) == Frac(q[1], q[2] * k)

RMul(q, k) == Frac(q[1] * k, q[2])

RGt(q, k) == q[1] > k * q[2]

\* ---- colour objects ----
NoColor == [rgba |-> <<>>, tup |-> <<>>]

Displayed(iterable, include_a) ==
    IF include_a THEN iterable ELSE SubSeq(iterable, 1, Len(iterable) - 1)

sRGBColor_from_rgba(rgba) ==
    [rgba |-> rgba,
     tup  |-> Displayed([i \in 1..Len(rgba) |-> RMul(rgba[i], Norm)], IncludeA)]

OverNorm(comps) == \E i \in 1..Len(comps) : RGt(comps[i], Norm)

sRGBColor_new(args) ==
    LET a     == IF Len(args) = 3 THEN Whole(Norm) ELSE args[4]
        comps == <<args[1], args[2], args[3], a>>
    IN  IF OverNorm(comps)
        THEN [ok |-> FALSE, val |-> NoColor]
        ELSE [ok |-> TRUE,
              val |-> [rgba |-> [i \in 1..4 |-> RDiv(comps[i], Norm)],
                       tup  |-> Displayed(comps, FALSE)]]

\* def __init__(self, **kwargs): the arguments Python hands on from the constructor call
\* are accepted only when none of them is positional
\* ("TypeError: sRGBColor.__init__() takes 1 positional argument but 4 were given")
sRGBColor_init(npositional) == npositional = 0

\* sRGBColor(...): Python runs __new__ and then __init__ with the same arguments
sRGBColor_call(args, npositional) ==
    LET obj == sRGBColor_new(args)
    IN  IF obj.ok /\ ~sRGBColor_init(npositional)
        THEN [ok |-> FALSE, val |-> NoColor]
        ELSE obj

\* a ColorBase instance goes through _from_rgba; anything else is unpacked into
\* positional arguments, self.color_space(*color, **self._kwargs), and every
\* exception becomes the ValueError of line 275
interpret_color_input(color) ==
    IF color.kind = "variant"
    THEN [ok |-> TRUE, val |-> sRGBColor_from_rgba(color.comps)]
    ELSE sRGBColor_call(color.comps, Len(color.comps))

\* ---- sequences and the ordered palette dictionary ----
InSeq(x, s) == \E i \in 1..Len(s) : s[i] = x

FirstIndex(x, s) == CHOOSE i \in 1..Len(s) : s[i] = x /\ \A j \in 1..(i - 1) : s[j] # x

ListRemove(s, x) ==
    LET i == FirstIndex(x, s) IN SubSeq(s, 1, i - 1) \o SubSeq(s, i + 1, Len(s))

PalKeys(pals) == {pals[i].name : i \in 1..Len(pals)}

PalIndex(pals, p) == CHOOSE i \in 1..Len(pals) : pals[i].name = p

PalMembers(pals, p) == IF p \in PalKeys(pals) THEN pals[PalIndex(pals, p)].members ELSE <<>>

PalSet(pals, p, members) ==
    IF p \in PalKeys(pals)
    THEN [pals EXCEPT ![PalIndex(pals, p)].members = members]
    ELSE Append(pals, [name |-> p, members |-> members])

PalsWith(pals, name) == {p \in PalKeys(pals) : InSeq(name, PalMembers(pals, p))}

get_color(at, name) == at[name]

Bound(at, name) == get_color(at, name) # NoColor

\* ---- the dict as a value: what the methods read and write ----
EmptyDict == [attrs    |-> [n \in ColorNames |-> NoColor],
              colors   |-> {},
              palettes |-> <<>>,
              changed  |-> {}]

Self == [attrs |-> attrs, colors |-> colors, palettes |-> palettes, changed |-> changed]

\* ---- palette files: a record is a sequence of <<name, stored tuple>> ----
NoFile == [exists |-> FALSE, rec |-> <<>>]

File(rec) == [exists |-> TRUE, rec |-> rec]

RecNames(rec) == [i \in 1..Len(rec) |-> rec[i][1]]

\* a load in which a later record overwrites the binding of an earlier one
load_entry_last_wins(st, entry) ==
    [st EXCEPT !.d.attrs[entry[1]] = sRGBColor_from_rgba(entry[2]),
               !.d.colors = @ \cup {entry[1]},
               !.collisions = IF Bound(st.d.attrs, entry[1]) /\ st.d.attrs[entry[1]].rgba # entry[2]
                              THEN @ \cup {entry[1]} ELSE @]

\* __init__, lines 62-74: one name/value pair of a palette file
load_entry(st, entry) ==
    LET name     == entry[1]
        value    == entry[2]
        existing == get_color(st.d.attrs, name)
    IN  IF existing = NoColor
        THEN [st EXCEPT !.d.attrs[name] = sRGBColor_from_rgba(value),
                        !.d.colors = @ \cup {name}]
        ELSE IF existing.rgba # value
             THEN [st EXCEPT !.collisions = @ \cup {name}]
             ELSE st

RECURSIVE load_entries(_, _, _)
load_entries(st, rec, i) ==
    IF i > Len(rec) THEN st ELSE load_entries(load_entry(st, rec[i]), rec, i + 1)

\* __init__, lines 56-61: one palette file of the scan
load_palette(st, fs, pal_name) ==
    load_entries([st EXCEPT !.d.palettes = PalSet(@, pal_name, RecNames(fs[pal_name].rec))],
                 fs[pal_name].rec, 1)

RECURSIVE load_palettes(_, _, _, _)
load_palettes(st, fs, order, i) ==
    IF i > Len(order) THEN st
    ELSE load_palettes(load_palette(st, fs, order[i]), fs, order, i + 1)

ColorDict_init(fs, order) == load_palettes([d |-> EmptyDict, collisions |-> {}], fs, order, 1)

\* os.scandir yields the files of the directory in an arbitrary order
Orders(S) == {o \in [1..Cardinality(S) -> S] : \A i, j \in 1..Cardinality(S) : i # j => o[i] # o[j]}

ScanOrders(fs) == Orders({p \in PaletteNames : fs[p].exists})

\* ---- the mutating methods as functions of the dict: [d: dict after, res: outcome] ----
Ret(d, res) == [d |-> d, res |-> res]

\* add, lines 176-186
IsReserved(name) == name \in ReservedNames

\* add, line 189
Conflicts(existing, color) == existing # NoColor /\ existing.rgba # color.rgba

\* add, lines 193-197
add_bind(d, name, color, palette) ==
    [attrs    |-> [d.attrs EXCEPT ![name] = color],
     colors   |-> d.colors \cup {name},
     palettes |-> PalSet(d.palettes, palette, Append(PalMembers(d.palettes, palette), name)),
     changed  |-> d.changed \cup {palette}]

do_add(d, name, color, palette) ==
    IF IsReserved(name) THEN Ret(d, "ReservedName")
    ELSE LET c == interpret_color_input(color)
         IN  IF ~c.ok THEN Ret(d, "BadColor")
             ELSE IF Conflicts(get_color(d.attrs, name), c.val) THEN Ret(d, "NameConflict")
             ELSE Ret(add_bind(d, name, c.val, palette), "ok")

\* update, lines 212-214
update_marks(d, name) == d.changed \cup PalsWith(d.palettes, name)

do_update(d, name, color) ==
    IF name \in d.colors
    THEN LET c == interpret_color_input(color)
         IN  IF ~c.ok THEN Ret(d, "BadColor")
             ELSE Ret([d EXCEPT !.attrs[name] = c.val, !.changed = update_marks(d, name)], "ok")
    ELSE Ret(d, "UnknownName")

\* remove, line 220
remove_from_colors(cs, name) == cs \ {name}

do_remove(d, name, palette) ==
    IF palette \notin PalKeys(d.palettes) THEN Ret(d, "KeyError")
    ELSE IF ~InSeq(name, PalMembers(d.palettes, palette)) THEN Ret(d, "NotInPalette")
    ELSE LET d1 == [d EXCEPT !.palettes =
                        PalSet(@, palette, ListRemove(PalMembers(d.palettes, palette), name))]
         IN  IF name \notin d.colors THEN Ret(d1, "KeyError")
             ELSE Ret([d1 EXCEPT !.colors = remove_from_colors(@, name),
                                 !.changed = @ \cup {palette}], "ok")

\* remove_all, lines 226-229
remove_all_detach(pals, name) ==
    [i \in 1..Len(pals) |->
        IF InSeq(name, pals[i].members)
        THEN [pals[i] EXCEPT !.members = ListRemove(@, name)]
        ELSE pals[i]]

do_remove_all(d, name) ==
    IF name \notin d.colors THEN Ret(d, "KeyError")
    ELSE LET d1 == [d EXCEPT !.colors = @ \ {name}]
         IN  IF ~Bound(d.attrs, name) THEN Ret(d1, "AttributeError")
             ELSE Ret([d1 EXCEPT !.attrs[name] = NoColor,
                                 !.palettes = remove_all_detach(@, name),
                                 !.changed = @ \cup PalsWith(d.palettes, name)], "ok")

\* ---- serialisation: save, backup, restore_backup ----
DictKeys(rec) == {rec[i][1] : i \in 1..Len(rec)}

\* pal_dict[name] = value: a repeated key keeps its first position
DictSet(rec, key, value) ==
    IF key \in DictKeys(rec)
    THEN [i \in 1..Len(rec) |-> IF rec[i][1] = key THEN <<key, value>> ELSE rec[i]]
    ELSE Append(rec, <<key, value>>)

RECURSIVE pal_dict(_, _, _, _)
pal_dict(at, members, i, acc) ==
    IF i > Len(members) THEN acc
    ELSE pal_dict(at, members, i + 1, DictSet(acc, members[i], get_color(at, members[i]).rgba))

\* color = self.get_color(name); color._rgba raises when the name has no attribute
Dangling(d, palette) ==
    \E i \in 1..Len(PalMembers(d.palettes, palette)) :
        ~Bound(d.attrs, PalMembers(d.palettes, palette)[i])

save_record(d, palette) == pal_dict(d.attrs, PalMembers(d.palettes, palette), 1, <<>>)

save_files(fs, d, written) ==
    [p \in PaletteNames |-> IF p \in written THEN File(save_record(d, p)) ELSE fs[p]]

\* backup, lines 242-247
backup_record(d) ==
    [i \in 1..Len(d.palettes) |-> <<d.palettes[i].name, save_record(d, d.palettes[i].name)>>]

\* restore_backup, lines 252-255
restore_clear(d) ==
    [attrs    |-> [n \in ColorNames |-> IF n \in d.colors THEN NoColor ELSE d.attrs[n]],
     colors   |-> d.colors,
     palettes |-> <<>>,
     changed  |-> {}]

RawInput(comps) == [kind |-> "raw", comps |-> comps]

\* restore_backup, lines 260-261
RECURSIVE restore_names(_, _, _, _)
restore_names(d, palette, color_list, i) ==
    IF i > Len(color_list) THEN Ret(d, "ok")
    ELSE LET r == do_add(d, color_list[i][1], RawInput(color_list[i][2]), palette)
         IN  IF r.res # "ok" THEN r ELSE restore_names(r.d, palette, color_list, i + 1)

\* restore_backup, lines 258-259
RECURSIVE restore_palettes(_, _, _)
restore_palettes(d, color_dict, i) ==
    IF i > Len(color_dict) THEN Ret(d, "ok")
    ELSE LET r == restore_names(d, color_dict[i][1], color_dict[i][2], 1)
         IN  IF r.res # "ok" THEN r ELSE restore_palettes(r.d, color_dict, i + 1)

do_restore_backup(d, bf) ==
    IF ~bf.exists THEN Ret(restore_clear(d), "FileNotFound")
    ELSE restore_palettes(restore_clear(d), bf.rec, 1)

\* ---- inputs ----
Red == <<Whole(1), Whole(0), Whole(0), Whole(1)>>
Blue == <<Whole(0), Whole(0), Whole(1), Whole(1)>>

NoInput == [kind |-> "none", comps |-> <<>>]

Variant(rgba) == [kind |-> "variant", comps |-> rgba]

\* sRGBColor(r=255, g=0, b=0), sRGBColor(r=0, g=0, b=255) and the tuple (255, 0, 0)
ColorInputs ==
    {Variant(Red), Variant(Blue), RawInput(<<Whole(255), Whole(0), Whole(0)>>)}

InitFiles ==
    {[p \in PaletteNames |-> NoFile],
     [p \in PaletteNames |->
         IF p = "p1" THEN File(<< <<"red", Red>>, <<"sky", Blue>> >>)
         ELSE File(<< <<"red", Blue>> >>)],
     [p \in PaletteNames |-> File(<< <<"red", Red>> >>)],
     [p \in PaletteNames |->
         IF p = "p1" THEN File(<< <<"red", SubSeq(Red, 1, 3)>> >>)
         ELSE File(<< <<"red", Red>> >>)]}

Call(op, name, palette, color, res, written, collisions) ==
    [op |-> op, name |-> name, palette |-> palette, color |-> color, res |-> res,
     written |-> written, collisions |-> collisions]

SetDict(d) ==
    /\ attrs' = d.attrs
    /\ colors' = d.colors
    /\ palettes' = d.palettes
    /\ changed' = d.changed

\* ---- exact arithmetic of the conversions ----
RAdd(p, q) == Frac(p[1] * q[2] + q[1] * p[2], p[2] * q[2])

RSub(p, q) == Frac(p[1] * q[2] - q[1] * p[2], p[2] * q[2])

RTimes(p, q) == Frac(p[1] * q[1], p[2] * q[2])

\* p / q for q # 0
ROver(p, q) ==
    IF q[1] > 0 THEN Frac(p[1] * q[2], p[2] * q[1])
    ELSE Frac(-(p[1] * q[2]), p[2] * (-q[1]))

RLess(p, q) == p[1] * q[2] < q[1] * p[2]

RLeq(p, q) == ~RLess(q, p)

RMax(p, q) == IF RLess(p, q) THEN q ELSE p

RMin(p, q) == IF RLess(q, p) THEN q ELSE p

\* x % 1.0
RMod1(p) == Frac(p[1] % p[2], p[2])

\* int(x): truncation towards zero
RTrunc(p) == IF p[1] >= 0 THEN p[1] \div p[2] ELSE -((-p[1]) \div p[2])

Zero == Whole(0)
One == Whole(1)
Half == <<1, 2>>

\* ---- colour variants: color.py ----
NoVariant == [cls |-> "", rgba |-> <<>>, tup |-> <<>>, include_a |-> FALSE]

Raised(err) == [ok |-> FALSE, err |-> err, val |-> NoVariant]

Returned(obj) == [ok |-> TRUE, err |-> "ok", val |-> obj]

\* ColorTupleBase.__new__ with round_to = -1
ColorTupleBase_new(cls, iterable, rgba, include_a) ==
    [cls |-> cls, rgba |-> rgba, tup |-> Displayed(iterable, include_a), include_a |-> include_a]

\* any(spec > norm for spec in ...)
AnyOver(comps, norm) == \E i \in 1..Len(comps) : RGt(comps[i], norm)

\* a = norm when a is None: the arguments are the components without or with the alpha
WithAlpha(args, n, norm) == IF Len(args) = n THEN Append(args, Whole(norm)) ELSE args

\* sRGBColor.__new__ with the keyword include_a, which line 154 does not hand on
sRGBColor_new_kw(args, include_a) ==
    LET o == sRGBColor_new(args)
    IN  IF o.ok
        THEN Returned([cls |-> "sRGBColor", rgba |-> o.val.rgba, tup |-> o.val.tup,
                       include_a |-> FALSE])
        ELSE Raised("ValueError")

sRGBColor_from_rgba_kw(rgba, include_a) ==
    Returned(ColorTupleBase_new("sRGBColor", [i \in 1..Len(rgba) |-> RMul(rgba[i], Norm)],
                                rgba, include_a))

\* colorsys._v
hls_v(m1, m2, hue0) ==
    LET hue == RMod1(hue0)
    IN  IF RLess(hue, <<1, 6>>)
        THEN RAdd(m1, RTimes(RTimes(RSub(m2, m1), hue), Whole(6)))
        ELSE IF RLess(hue, Half) THEN m2
        ELSE IF RLess(hue, <<2, 3>>)
        THEN RAdd(m1, RTimes(RTimes(RSub(m2, m1), RSub(<<2, 3>>, hue)), Whole(6)))
        ELSE m1

\* colorsys.hls_to_rgb
hls_to_rgb(h, l, s) ==
    IF s = Zero THEN <<l, l, l>>
    ELSE LET m2 == IF RLeq(l, Half) THEN RTimes(l, RAdd(One, s))
                   ELSE RSub(RAdd(l, s), RTimes(l, s))
             m1 == RSub(RTimes(Whole(2), l), m2)
         IN  <<hls_v(m1, m2, RAdd(h, <<1, 3>>)), hls_v(m1, m2, h), hls_v(m1, m2, RSub(h, <<1, 3>>))>>

\* colorsys.hsv_to_rgb
hsv_to_rgb(h, s, v) ==
    IF s = Zero THEN <<v, v, v>>
    ELSE LET i == RTrunc(RTimes(h, Whole(6)))
             f == RSub(RTimes(h, Whole(6)), Whole(i))
             p == RTimes(v, RSub(One, s))
             q == RTimes(v, RSub(One, RTimes(s, f)))
             t == RTimes(v, RSub(One, RTimes(s, RSub(One, f))))
             k == i % 6
         IN  IF k = 0 THEN <<v, t, p>>
             ELSE IF k = 1 THEN <<q, v, p>>
             ELSE IF k = 2 THEN <<p, v, t>>
             ELSE IF k = 3 THEN <<p, q, v>>
             ELSE IF k = 4 THEN <<t, p, v>>
             ELSE <<v, p, q>>

\* the hue of colorsys.rgb_to_hls and colorsys.rgb_to_hsv, for maxc # minc
rgb_hue(r, g, b, maxc, rangec) ==
    LET rc == ROver(RSub(maxc, r), rangec)
        gc == ROver(RSub(maxc, g), rangec)
        bc == ROver(RSub(maxc, b), rangec)
        h  == IF r = maxc THEN RSub(bc, gc)
              ELSE IF g = maxc THEN RSub(RAdd(Whole(2), rc), bc)
              ELSE RSub(RAdd(Whole(4), gc), rc)
    IN  RMod1(ROver(h, Whole(6)))

\* colorsys.rgb_to_hls: <<ok, h, l, s>>, not ok for the ZeroDivisionError
rgb_to_hls(r, g, b) ==
    LET maxc   == RMax(r, RMax(g, b))
        minc   == RMin(r, RMin(g, b))
        sumc   == RAdd(maxc, minc)
        rangec == RSub(maxc, minc)
        l      == ROver(sumc, Whole(2))
        den    == IF RLeq(l, Half) THEN sumc ELSE RSub(RSub(Whole(2), maxc), minc)
    IN  IF minc = maxc THEN <<TRUE, Zero, l, Zero>>
        ELSE IF den = Zero THEN <<FALSE, Zero, Zero, Zero>>
        ELSE <<TRUE, rgb_hue(r, g, b, maxc, rangec), l, ROver(rangec, den)>>

\* colorsys.rgb_to_hsv: <<ok, h, s, v>>
rgb_to_hsv(r, g, b) ==
    LET maxc   == RMax(r, RMax(g, b))
        minc   == RMin(r, RMin(g, b))
        rangec == RSub(maxc, minc)
    IN  IF minc = maxc THEN <<TRUE, Zero, Zero, maxc>>
        ELSE IF maxc = Zero THEN <<FALSE, Zero, Zero, Zero>>
        ELSE <<TRUE, rgb_hue(r, g, b, maxc, rangec), ROver(rangec, maxc), maxc>>

HSLColor_new(args, include_a) ==
    LET hsla == WithAlpha(args, 3, UnitNorm)
    IN  IF RGt(hsla[1], HNorm) \/ AnyOver(SubSeq(hsla, 2, 4), UnitNorm)
        THEN Raised("ValueError")
        ELSE Returned(ColorTupleBase_new("HSLColor", hsla,
                 hls_to_rgb(RDiv(hsla[1], HNorm), RDiv(hsla[3], UnitNorm), RDiv(hsla[2], UnitNorm))
                     \o <<RDiv(hsla[4], UnitNorm)>>,
                 include_a))

HSLColor_from_rgba(rgba, include_a) ==
    LET hls == rgb_to_hls(rgba[1], rgba[2], rgba[3])
    IN  IF ~hls[1] THEN Raised("ZeroDivisionError")
        ELSE Returned(ColorTupleBase_new("HSLColor",
                 <<RMul(hls[2], HNorm), RMul(hls[4], UnitNorm), RMul(hls[3], UnitNorm),
                   RMul(rgba[Len(rgba)], UnitNorm)>>,
                 rgba, include_a))

HSVColor_new(args, include_a) ==
    LET hsva == WithAlpha(args, 3, UnitNorm)
    IN  IF RGt(hsva[1], HNorm) \/ AnyOver(SubSeq(hsva, 2, 4), UnitNorm)
        THEN Raised("ValueError")
        ELSE Returned(ColorTupleBase_new("HSVColor", hsva,
                 hsv_to_rgb(RDiv(hsva[1], HNorm), RDiv(hsva[2], UnitNorm), RDiv(hsva[3], UnitNorm))
                     \o <<RDiv(hsva[4], UnitNorm)>>,
                 include_a))

HSVColor_from_rgba(rgba, include_a) ==
    LET hsv == rgb_to_hsv(rgba[1], rgba[2], rgba[3])
    IN  IF ~hsv[1] THEN Raised("ZeroDivisionError")
        ELSE Returned(ColorTupleBase_new("HSVColor",
                 <<RMul(hsv[2], HNorm), RMul(hsv[3], UnitNorm), RMul(hsv[4], UnitNorm),
                   RMul(rgba[Len(rgba)], UnitNorm)>>,
                 rgba, include_a))

\* 1 - spec / norm
Complement(spec, norm) == RSub(One, RDiv(spec, norm))

CMYKColor_new(args, include_a) ==
    LET cmyka == WithAlpha(args, 4, UnitNorm)
        k1    == Complement(cmyka[4], UnitNorm)
    IN  IF AnyOver(cmyka, UnitNorm)
        THEN Raised("ValueError")
        ELSE Returned(ColorTupleBase_new("CMYKColor", cmyka,
                 <<RTimes(Complement(cmyka[1], UnitNorm), k1),
                   RTimes(Complement(cmyka[2], UnitNorm), k1),
                   RTimes(Complement(cmyka[3], UnitNorm), k1),
                   RDiv(cmyka[5], UnitNorm)>>,
                 include_a))

CMYKColor_from_rgba(rgba, include_a) ==
    LET c == RSub(One, rgba[1])
        m == RSub(One, rgba[2])
        y == RSub(One, rgba[3])
        k == RMin(c, RMin(m, y))
        d == RSub(One, k)
    IN  IF RAdd(rgba[1], RAdd(rgba[2], rgba[3])) = Zero
        THEN Returned(ColorTupleBase_new("CMYKColor",
                 <<Zero, Zero, Zero, Whole(UnitNorm), RMul(rgba[Len(rgba)], UnitNorm)>>,
                 rgba, include_a))
        ELSE IF d = Zero THEN Raised("ZeroDivisionError")
        ELSE Returned(ColorTupleBase_new("CMYKColor",
                 <<RMul(ROver(RSub(c, k), d), UnitNorm), RMul(ROver(RSub(m, k), d), UnitNorm),
                   RMul(ROver(RSub(y, k), d), UnitNorm), RMul(k, UnitNorm),
                   RMul(rgba[Len(rgba)], UnitNorm)>>,
                 rgba, include_a))

CMYColor_new(args, include_a) ==
    LET cmya == WithAlpha(args, 3, UnitNorm)
    IN  IF AnyOver(cmya, UnitNorm)
        THEN Raised("ValueError")
        ELSE Returned(ColorTupleBase_new("CMYColor", cmya,
                 <<Complement(cmya[1], UnitNorm), Complement(cmya[2], UnitNorm),
                   Complement(cmya[3], UnitNorm), RDiv(cmya[4], UnitNorm)>>,
                 include_a))

CMYColor_from_rgba(rgba, include_a) ==
    Returned(ColorTupleBase_new("CMYColor",
        <<RMul(RSub(One, rgba[1]), UnitNorm), RMul(RSub(One, rgba[2]), UnitNorm),
          RMul(RSub(One, rgba[3]), UnitNorm), RMul(rgba[Len(rgba)], UnitNorm)>>,
        rgba, include_a))

\* a hexadecimal string is the sequence of the values of its digits after the "#";
\* Minus stands for the sign that '%02x' prints for a negative number
Minus == -1

\* hex_str[i:j] for a negative i and a j that is negative or zero
PySlice(s, i, j) == SubSeq(s, Len(s) + i + 1, IF j < 0 THEN Len(s) + j ELSE j)

\* int(x, 16): <<ok, value>>, not ok for the ValueError on an empty string
IntHex(ds) ==
    IF ds = <<>> THEN <<FALSE, 0>>
    ELSE <<TRUE, IF Len(ds) = 1 THEN ds[1] ELSE 16 * ds[1] + ds[2]>>

\* HexColor.__new__
HexColor_new(hex_str, include_a) ==
    LET byte(i) == IntHex(PySlice(hex_str, i, i + 2))
    IN  IF Len(hex_str) \notin {6, 8} THEN Raised("ValueError")
        ELSE IF \E i \in {-6, -4, -2} : ~byte(i)[1] THEN Raised("ValueError")
        ELSE Returned([cls |-> "HexColor",
                       rgba |-> <<Frac(byte(-6)[2], 255), Frac(byte(-4)[2], 255),
                                  Frac(byte(-2)[2], 255),
                                  IF Len(hex_str) = 6 THEN One
                                  ELSE Frac(IntHex(SubSeq(hex_str, 1, 2))[2], 255)>>,
                       tup |-> hex_str, include_a |-> FALSE])

RECURSIVE HexDigits(_)
HexDigits(n) == IF n < 16 THEN <<n>> ELSE Append(HexDigits(n \div 16), n % 16)

\* '%02x' % n
Fmt02x(n) ==
    IF n < 0 THEN <<Minus>> \o HexDigits(-n)
    ELSE IF n < 16 THEN <<0, n>>
    ELSE HexDigits(n)

\* a _from_rgba that keeps the canonical value its hexadecimal string stands for
HexColor_from_rgba_reparsed(rgba, include_a) ==
    LET b(i) == Fmt02x(RTrunc(RMul(rgba[i], 255)))
    IN  Returned([cls |-> "HexColor",
                  rgba |-> [i \in 1..Len(rgba) |-> Frac(RTrunc(RMul(rgba[i], 255)), 255)],
                  tup |-> (IF include_a THEN b(Len(rgba)) ELSE <<>>) \o b(1) \o b(2) \o b(3),
                  include_a |-> include_a])

HexColor_from_rgba(rgba, include_a) ==
    LET b(i) == Fmt02x(RTrunc(RMul(rgba[i], 255)))
    IN  Returned([cls |-> "HexColor", rgba |-> rgba,
                  tup |-> (IF include_a THEN b(Len(rgba)) ELSE <<>>) \o b(1) \o b(2) \o b(3),
                  include_a |-> include_a])

\* def __init__(self, **kwargs) of every class: a call with positional arguments raises
\* TypeError after __new__ returned
Construct(made, positional) ==
    IF made.ok /\ positional THEN Raised("TypeError") ELSE made

\* cls(...)
Forward(cls, args, include_a) ==
    IF cls = "sRGBColor" THEN sRGBColor_new_kw(args, include_a)
    ELSE IF cls = "HSLColor" THEN HSLColor_new(args, include_a)
    ELSE IF cls = "HSVColor" THEN HSVColor_new(args, include_a)
    ELSE IF cls = "CMYKColor" THEN CMYKColor_new(args, include_a)
    ELSE IF cls = "CMYColor" THEN CMYColor_new(args, include_a)
    ELSE HexColor_new(args, include_a)

\* cls._from_rgba(rgba, include_a=...)
FromRgba(cls, rgba, include_a) ==
    IF cls = "sRGBColor" THEN sRGBColor_from_rgba_kw(rgba, include_a)
    ELSE IF cls = "HSLColor" THEN HSLColor_from_rgba(rgba, include_a)
    ELSE IF cls = "HSVColor" THEN HSVColor_from_rgba(rgba, include_a)
    ELSE IF cls = "CMYKColor" THEN CMYKColor_from_rgba(rgba, include_a)
    ELSE IF cls = "CMYColor" THEN CMYColor_from_rgba(rgba, include_a)
    ELSE HexColor_from_rgba(rgba, include_a)

\* ColorBase.__eq__ between two colour objects
ColorBase_eq(a, b) == a.rgba = b.rgba

\* ---- inputs of the constructors ----
ByteVals == {Whole(-1), Whole(0), Whole(51), Whole(255), Whole(256)}

UnitVals == {Whole(-1), Zero, Half, One, Whole(2)}

HueVals == {Whole(-60), Zero, Whole(120), Whole(210), Whole(360), Whole(361)}

sRGBArgs ==
    {<<r, g, Zero>> : r \in ByteVals, g \in {Zero, Whole(255)}}
        \cup {<<Whole(255), Zero, Whole(51), a>> : a \in ByteVals}

HSArgs ==
    {<<h, s, x>> : h \in HueVals, s \in {Zero, Half, One}, x \in {Half, One}}
        \cup {<<Zero, s, x>> : s, x \in UnitVals}
        \cup {<<Whole(120), One, Half, a>> : a \in UnitVals}

CMYKArgs ==
    {<<c, m, Zero, k>> : c \in UnitVals, m \in {Zero, One}, k \in {Zero, Half, One}}
        \cup {<<Zero, One, One, k>> : k \in UnitVals}
        \cup {<<Zero, One, Half, Zero, a>> : a \in UnitVals}

CMYArgs ==
    {<<c, m, y>> : c \in UnitVals, m \in {Zero, One}, y \in {Zero, Half}}
        \cup {<<Zero, One, Half, a>> : a \in UnitVals}

\* "ff0000", "#80ff0000" and "fff"
HexArgs == {<<15, 15, 0, 0, 0, 0>>, <<8, 0, 15, 15, 0, 0, 0, 0>>, <<15, 15, 15>>}

CanonArgs ==
    {<<r, g, b, a>> : r \in {Zero, Half, One}, g \in {Zero, One}, b \in {Zero, <<1, 5>>},
                      a \in {Half, One}}

Classes == {"sRGBColor", "HSLColor", "HSVColor", "CMYKColor", "CMYColor", "HexColor"}

ColorCall(op, path, args, include_a, positional, res, chain) ==
    [op |-> op, path |-> path, args |-> args, include_a |-> include_a,
     positional |-> positional, res |-> res, chain |-> chain]

NoOp == ColorCall("", "", <<>>, FALSE, FALSE, "ok", <<>>)

\* ---- the state after construction ----
Init ==
    /\ cur = NoVariant
    /\ first = NoVariant
    /\ cop = NoOp
    /\ files \in InitFiles
    /\ backupFile = NoFile
    /\ calls = 0
    /\ \E order \in ScanOrders(files) :
         LET st == ColorDict_init(files, order)
         IN  /\ attrs = st.d.attrs
             /\ colors = st.d.colors
             /\ palettes = st.d.palettes
             /\ changed = st.d.changed
             /\ last = Call("load", "", "", NoInput, "ok", {}, st.collisions)

\* ---- one action per method ----
\* ColorDict(): a new dict constructed over the palette files as they are now
load ==
    /\ \E order \in ScanOrders(files) :
         LET st == ColorDict_init(files, order)
         IN  /\ SetDict(st.d)
             /\ last' = Call("load", "", "", NoInput, "ok", {}, st.collisions)
    /\ UNCHANGED <<files, backupFile>>

add ==
    \E name \in ColorNames \cup ReservedNames, color \in ColorInputs, palette \in PaletteNames :
        /\ LET r == do_add(Self, name, color, palette)
           IN  /\ SetDict(r.d)
               /\ last' = Call("add", name, palette, color, r.res, {}, {})
        /\ UNCHANGED <<files, backupFile>>

update ==
    \E name \in ColorNames, color \in ColorInputs :
        /\ LET r == do_update(Self, name, color)
           IN  /\ SetDict(r.d)
               /\ last' = Call("update", name, "", color, r.res, {}, {})
        /\ UNCHANGED <<files, backupFile>>

remove ==
    \E name \in ColorNames, palette \in PaletteNames :
        /\ LET r == do_remove(Self, name, palette)
           IN  /\ SetDict(r.d)
               /\ last' = Call("remove", name, palette, NoInput, r.res, {}, {})
        /\ UNCHANGED <<files, backupFile>>

remove_all ==
    \E name \in ColorNames :
        /\ LET r == do_remove_all(Self, name)
           IN  /\ SetDict(r.d)
               /\ last' = Call("remove_all", name, "", NoInput, r.res, {}, {})
        /\ UNCHANGED <<files, backupFile>>

\* save iterates the set _changed in an arbitrary order; a palette with a name that has
\* no attribute raises before its file is opened, after the palettes iterated earlier
\* were written, and _changed.clear() is not reached
save ==
    /\ \/ /\ \A p \in changed : ~Dangling(Self, p)
          /\ files' = save_files(files, Self, changed)
          /\ changed' = {}
          /\ last' = Call("save", "", "", NoInput, "ok", changed, {})
       \/ \E f \in changed :
            /\ Dangling(Self, f)
            /\ \E W \in SUBSET {p \in changed \ {f} : ~Dangling(Self, p)} :
                 /\ files' = save_files(files, Self, W)
                 /\ last' = Call("save", "", "", NoInput, "AttributeError", W, {})
            /\ UNCHANGED changed
    /\ UNCHANGED <<attrs, colors, palettes, backupFile>>

backup ==
    /\ \/ /\ \A p \in PalKeys(palettes) : ~Dangling(Self, p)
          /\ backupFile' = File(backup_record(Self))
          /\ last' = Call("backup", "", "", NoInput, "ok", {}, {})
       \/ /\ \E p \in PalKeys(palettes) : Dangling(Self, p)
          /\ UNCHANGED backupFile
          /\ last' = Call("backup", "", "", NoInput, "AttributeError", {}, {})
    /\ UNCHANGED <<attrs, colors, palettes, changed, files>>

\* names of self.colors whose attribute is gone: delattr raises on them
Unbound(d) == {n \in d.colors : ~Bound(d.attrs, n)}

restore_backup ==
    /\ \/ /\ Unbound(Self) # {}
          /\ \E S \in SUBSET (colors \ Unbound(Self)) :
               attrs' = [n \in ColorNames |-> IF n \in S THEN NoColor ELSE attrs[n]]
          /\ UNCHANGED <<colors, palettes, changed>>
          /\ last' = Call("restore_backup", "", "", NoInput, "AttributeError", {}, {})
       \/ /\ Unbound(Self) = {}
          /\ LET r == do_restore_backup(Self, backupFile)
             IN  /\ SetDict(r.d)
                 /\ last' = Call("restore_backup", "", "", NoInput, r.res, {}, {})
    /\ UNCHANGED <<files, backupFile>>

\* the model follows the dict for MaxCalls method calls
Tick ==
    /\ calls < MaxCalls
    /\ calls' = calls + 1
    /\ UNCHANGED cvars

Next ==
    \/ Tick /\ load
    \/ Tick /\ add
    \/ Tick /\ update
    \/ Tick /\ remove
    \/ Tick /\ remove_all
    \/ Tick /\ save
    \/ Tick /\ backup
    \/ Tick /\ restore_backup

Spec == Init /\ [][Next]_vars

\* ---- a colour on its own: constructors and conversion methods ----
ColorInit ==
    /\ cur = NoVariant
    /\ first = NoVariant
    /\ cop = NoOp
    /\ attrs = EmptyDict.attrs
    /\ colors = EmptyDict.colors
    /\ palettes = EmptyDict.palettes
    /\ changed = EmptyDict.changed
    /\ files = [p \in PaletteNames |-> NoFile]
    /\ backupFile = NoFile
    /\ last = Call("load", "", "", NoInput, "ok", {}, {})
    /\ calls = 0

\* v = cls(...), with positional or with keyword arguments; a run follows one variant
\* and the chain of conversions applied to it
New(cls, argsets) ==
    /\ cop = NoOp
    /\ \E args \in argsets, include_a \in BOOLEAN, positional \in BOOLEAN :
        LET r == Construct(Forward(cls, args, include_a), positional)
        IN  /\ cur' = r.val
            /\ first' = r.val
            /\ cop' = ColorCall(cls, "new", args, include_a, positional, r.err, <<>>)
    /\ UNCHANGED dvars

new_sRGBColor == New("sRGBColor", sRGBArgs)

new_HSLColor == New("HSLColor", HSArgs)

new_HSVColor == New("HSVColor", HSArgs)

new_CMYKColor == New("CMYKColor", CMYKArgs)

new_CMYColor == New("CMYColor", CMYArgs)

new_HexColor == New("HexColor", HexArgs)

\* v = cls._from_rgba(rgba, include_a=...)
from_rgba ==
    /\ cop = NoOp
    /\ \E cls \in Classes, rgba \in CanonArgs, include_a \in BOOLEAN :
        LET r == FromRgba(cls, rgba, include_a)
        IN  /\ cur' = r.val
            /\ first' = r.val
            /\ cop' = ColorCall(cls, "from_rgba", rgba, include_a, FALSE, r.err, <<>>)
    /\ UNCHANGED dvars

\* the conversion methods of ColorBase, lines 37-89, on the variant at hand; a method
\* that raises leaves the variant at hand
Convert(method, cls) ==
    /\ cur # NoVariant
    /\ Len(cop.chain) < MaxChain
    /\ \E include_a \in BOOLEAN :
        LET r == FromRgba(cls, cur.rgba, include_a)
        IN  /\ cur' = IF r.ok THEN r.val ELSE cur
            /\ cop' = ColorCall(method, "convert", cur.rgba, include_a, FALSE, r.err,
                                Append(cop.chain, method))
    /\ UNCHANGED first
    /\ UNCHANGED dvars

hex == Convert("hex", "HexColor")

rgb == Convert("rgb", "sRGBColor")

hsl == Convert("hsl", "HSLColor")

hsv == Convert("hsv", "HSVColor")

cmyk == Convert("cmyk", "CMYKColor")

cmy == Convert("cmy", "CMYColor")

ColorNext ==
    \/ new_sRGBColor
    \/ new_HSLColor
    \/ new_HSVColor
    \/ new_CMYKColor
    \/ new_CMYColor
    \/ new_HexColor
    \/ from_rgba
    \/ hex
    \/ rgb
    \/ hsl
    \/ hsv
    \/ cmyk
    \/ cmy

SpecColor == ColorInit /\ [][ColorNext]_vars

\* names, lines 127-130, for a colour object: the names of self.colors that equal it
names(d, color) == {n \in d.colors : get_color(d.attrs, n).rgba = color.rgba}

\* ---- vocabulary of the claims ----
BoundNames(at) == {n \in ColorNames : Bound(at, n)}

SeqNames(s) == {s[i] : i \in 1..Len(s)}

\* the canonical value an input stands for: a colour object carries it, a tuple of
\* components has the one sRGBColor.__new__ computes under the dict's norm
Canon(c) == IF c.kind = "variant" THEN c.comps ELSE sRGBColor_new(c.comps).val.rgba

ValidInputs == {c \in ColorInputs : c.kind = "variant" \/ sRGBColor_new(c.comps).ok}

Mutators == {"add", "update", "remove", "remove_all"}

\* C1: every name in any palette's sequence is a known colour name bound to a colour
C1_NoDanglingName ==
    \A p \in PalKeys(palettes) :
        \A n \in SeqNames(PalMembers(palettes, p)) : n \in colors /\ Bound(attrs, n)

\* C2: add(n, y) right after a successful add(n, x) raises the name conflict when the
\* canonical values differ, and succeeds with n in both palettes when they are equal
C2_Uniqueness ==
    [][(/\ last.op = "add" /\ last.res = "ok"
        /\ last'.op = "add" /\ last'.name = last.name
        /\ last'.color \in ValidInputs)
       => IF Canon(last'.color) # Canon(last.color)
          THEN last'.res = "NameConflict"
          ELSE /\ last'.res = "ok"
               /\ InSeq(last.name, PalMembers(palettes', last.palette))
               /\ InSeq(last.name, PalMembers(palettes', last'.palette))]_vars

\* C3: backup() immediately followed by restore_backup() gives an equivalent dict
C3_BackupRestoreRoundTrip ==
    [][(last.op = "backup" /\ last.res = "ok" /\ last'.op = "restore_backup")
       => /\ last'.res = "ok"
          /\ BoundNames(attrs') = BoundNames(attrs)
          /\ \A n \in BoundNames(attrs) : attrs'[n].rgba = attrs[n].rgba
          /\ PalKeys(palettes') = PalKeys(palettes)
          /\ \A p \in PalKeys(palettes) : PalMembers(palettes', p) = PalMembers(palettes, p)]_vars

\* C4: save() writes exactly the palettes of the dirty set and leaves the dirty set empty
C4_SaveWritesDirty ==
    [][last'.op = "save" => (last'.written = changed /\ changed' = {})]_vars

\* C5: after add, update, remove and remove_all, returned or raised, every palette whose
\* sequence changed or one of whose members was rebound is dirty, and none stops being dirty
C5_ChangedIsDirty ==
    [][last'.op \in Mutators
       => /\ changed \subseteq changed'
          /\ \A p \in PalKeys(palettes) \cup PalKeys(palettes') :
                (\/ p \notin PalKeys(palettes)
                 \/ PalMembers(palettes', p) # PalMembers(palettes, p)
                 \/ \E n \in SeqNames(PalMembers(palettes, p)) : attrs'[n] # attrs[n])
                => p \in changed']_vars

\* C6: remove(name, palette) leaves the name bound to the same value (get, names and
\* update still work on it) and leaves every other palette as it was
C6_RemoveKeepsBinding ==
    [][(last'.op = "remove" /\ last'.res = "ok")
       => /\ Bound(attrs', last'.name)
          /\ attrs'[last'.name] = attrs[last'.name]
          /\ last'.name \in names(Self', attrs'[last'.name])
          /\ \A c \in ValidInputs : do_update(Self', last'.name, c).res = "ok"
          /\ \A p \in PalKeys(palettes) \ {last'.palette} :
                PalMembers(palettes', p) = PalMembers(palettes, p)]_vars

\* C7: after remove_all(name) on a bound name the name is in no palette, get(name) is
\* absent and every palette that contained the name is dirty
C7_RemoveAllDetaches ==
    [][(last'.op = "remove_all" /\ last'.res = "ok")
       => /\ PalsWith(palettes', last'.name) = {}
          /\ ~Bound(attrs', last'.name)
          /\ PalsWith(palettes, last'.name) \subseteq changed']_vars

\* C8: update(name, color) raises not-found exactly when get(name) is absent, changing
\* nothing; on a bound name it rebinds the name and marks the palettes containing it dirty
C8_UpdateNotFound ==
    [][last'.op = "update"
       => /\ (last'.res = "UnknownName") <=> ~Bound(attrs, last'.name)
          /\ last'.res = "UnknownName" => Self' = Self
          /\ (Bound(attrs, last'.name) /\ last'.color \in ValidInputs)
                => /\ attrs'[last'.name].rgba = Canon(last'.color)
                   /\ PalsWith(palettes', last'.name) \subseteq changed']_vars

\* the dict holds exactly what the backup record holds
MatchesBackup(d, bf) ==
    /\ PalKeys(d.palettes) = {bf.rec[i][1] : i \in 1..Len(bf.rec)}
    /\ \A i \in 1..Len(bf.rec) :
          /\ PalMembers(d.palettes, bf.rec[i][1]) = RecNames(bf.rec[i][2])
          /\ \A j \in 1..Len(bf.rec[i][2]) :
                d.attrs[bf.rec[i][2][j][1]].rgba = bf.rec[i][2][j][2]
    /\ BoundNames(d.attrs) = UNION {DictKeys(bf.rec[i][2]) : i \in 1..Len(bf.rec)}

\* C9: restore_backup() completes without error and leaves exactly the names, values and
\* palette memberships of the backup record
C9_RestoreIsBackup ==
    (last.op = "restore_backup" /\ backupFile.exists)
        => (last.res = "ok" /\ MatchesBackup(Self, backupFile))

\* the stored tuples of a name over all palette files
StoredValues(fs, n) ==
    {fs[p].rec[i][2] : <<p, i>> \in {<<q, j>> \in PaletteNames \X (1..8) :
                                        fs[q].exists /\ j <= Len(fs[q].rec) /\ fs[q].rec[j][1] = n}}

\* the stored tuple of a name in the first scanned palette that has it
FirstSeen(fs, pals, n) ==
    LET i   == CHOOSE k \in 1..Len(pals) :
                  /\ InSeq(n, pals[k].members)
                  /\ \A m \in 1..(k - 1) : ~InSeq(n, pals[m].members)
        rec == fs[pals[i].name].rec
    IN  rec[FirstIndex(n, RecNames(rec))][2]

ColorTupleBase_eq(obj, c) ==
    IF c.kind = "variant" THEN obj.rgba = c.comps ELSE obj.tup = c.comps

\* names, lines 127-130, for any argument: get_color(name) == color over self.colors
names_input(d, c) == {n \in d.colors : ColorTupleBase_eq(get_color(d.attrs, n), c)}

\* the arguments of names: the inputs of add and the tuple (255, 0, 0, 255)
QueryInputs ==
    ValidInputs \cup {RawInput(<<Whole(255), Whole(0), Whole(0), Whole(255)>>)}

\* C11: names(c) is exactly the set of bound names whose canonical value, alpha included,
\* equals the canonical value of c, for a colour object and for a tuple of components
C11_NamesByCanonical ==
    \A c \in QueryInputs :
        names_input(Self, c) = {n \in BoundNames(attrs) : attrs[n].rgba = Canon(c)}

\* C12: a dict loaded from the files save() wrote has, for every written palette, the
\* same names in the same order bound to the same canonical values; and a load gives a
\* stored 3-element record the full alpha
C12_SaveLoadRoundTrip ==
    [][/\ (last'.op = "save" /\ last'.res = "ok")
          => \A order \in ScanOrders(files') :
                LET d2 == ColorDict_init(files', order).d
                IN  \A p \in last'.written :
                       /\ PalMembers(d2.palettes, p) = PalMembers(palettes, p)
                       /\ \A n \in SeqNames(PalMembers(palettes, p)) :
                             d2.attrs[n].rgba = attrs[n].rgba
       /\ last'.op = "load"
          => \A n \in BoundNames(attrs') :
                Len(FirstSeen(files, palettes', n)) = 3
                   => attrs'[n].rgba = FirstSeen(files, palettes', n) \o <<Whole(1)>>]_vars

\* a sequence without the repetitions of its elements
RECURSIVE FirstOccurrences(_)
FirstOccurrences(s) ==
    IF s = <<>> THEN <<>>
    ELSE LET r == FirstOccurrences(SubSeq(s, 1, Len(s) - 1))
         IN  IF InSeq(s[Len(s)], r) THEN r ELSE Append(r, s[Len(s)])

\* C13: backup() writes one record with every palette of the dict, dirty or not, each
\* with its member names in sequence order mapped to their values, and changes nothing
\* in memory
C13_BackupWritesAll ==
    [][last'.op = "backup"
       => /\ Self' = Self
          /\ backupFile'.exists
          /\ [i \in 1..Len(backupFile'.rec) |-> backupFile'.rec[i][1]]
                = [i \in 1..Len(palettes) |-> palettes[i].name]
          /\ \A i \in 1..Len(palettes) :
                LET rec == backupFile'.rec[i][2]
                IN  /\ RecNames(rec) = FirstOccurrences(palettes[i].members)
                    /\ \A j \in 1..Len(rec) : rec[j][2] = attrs[rec[j][1]].rgba]_vars

\* C17: a call of add, update, remove or remove_all that raises leaves the bound names
\* and values, every palette's sequence and the dirty set exactly as they were
C17_ErrorAtomicity ==
    [][(last'.op \in Mutators /\ last'.res # "ok") => Self' = Self]_vars

\* the number of components a class displays without the alpha
Components(cls) == IF cls = "CMYKColor" THEN 4 ELSE IF cls = "HexColor" THEN 6 ELSE 3

InUnit(q) == RLeq(Zero, q) /\ RLeq(q, One)

\* the norm of the i-th argument of a forward constructor
ArgNorm(cls, i) ==
    IF cls = "sRGBColor" THEN Norm
    ELSE IF cls \in {"HSLColor", "HSVColor"} /\ i = 1 THEN HNorm
    ELSE UnitNorm

\* C14: a variant returned by a forward constructor has its four canonical components
\* in [0, 1], and an input with a component above its norm is rejected with the
\* out-of-range error
C14_CanonicalInRange ==
    cop.path = "new" =>
        /\ cop.res = "ok" => \A i \in 1..4 : InUnit(cur.rgba[i])
        /\ (cop.op # "HexColor" /\ \E i \in 1..Len(cop.args) : RGt(cop.args[i], ArgNorm(cop.op, i)))
              => cop.res = "ValueError"

\* C15: after any chain of conversion methods the variant at hand carries the canonical
\* value of the variant the chain started from, and compares equal to it
C15_ConversionKeepsCanonical ==
    cur # NoVariant => (cur.rgba = first.rgba /\ ColorBase_eq(cur, first))

\* C15 witness: a chain of MaxChain conversions that ended in another class than it
\* started from, on a variant whose hexadecimal form lost precision on the way
C15_Witness ==
    /\ Len(cop.chain) = MaxChain /\ cop.res = "ok"
    /\ "hex" \in SeqNames(cop.chain)
    /\ first.cls = "CMYKColor" /\ cur.cls = "HSLColor"
    /\ first.rgba[1] = Half

\* C16: whichever way a variant was constructed, its displayed form has the alpha exactly
\* when the alpha was requested: one more component for the tuple variants, the two
\* digits of the alpha byte for the hexadecimal variant
C16_AlphaAsRequested ==
    (cop.res = "ok" /\ cur # NoVariant)
        => Len(cur.tup) = Components(cur.cls)
                            + (IF cop.include_a
                               THEN (IF cur.cls = "HexColor" THEN 2 ELSE 1) ELSE 0)

====
